---- MODULE Spec2Model ----
(***************************************************************************)
(* Model of substrate/client/rpc-spec-v2/src/transaction/transaction.rs:   *)
(* the transaction_unstable_submitAndWatch RPC.  Two specifications:       *)
(*   SpecT  one TransactionState value fed a sequence of pool statuses by  *)
(*          repeated calls of handle_event (the translator on its own);    *)
(*   Spec   the whole of submit_and_watch for a set of subscriptions: the  *)
(*          decode, the pool submission, the spawned task, the stream      *)
(*          closure that calls handle_event, and the pipe into the sink.   *)
(***************************************************************************)
EXTENDS Integers, Sequences, FiniteSets, TLC

\* ------------------------------------------------------------------ bounds
\* Longest status sequence fed to one TransactionState in SpecT.
MaxLen == 3
\* Most statuses the pool emits, over all subscriptions together, in Spec.
MaxBackend == 2

\* --------------------------------------------------------------- constants
BAD_FORMAT == 1001
TX_SOURCE == "External"

\* ------------------------------------------------------------ value domains
Subs == {"s1", "s2"}
\* The order in which the server receives the calls (sinks are named by it).
CallOrder == <<"s1", "s2">>
Hashes == {"h1", "h2"}
\* The order in which the client imports the blocks.
ImportOrder == <<"h1", "h2">>
Indexes == {0, 1}
PeerLists == {<<>>, <<"p1">>, <<"p1", "p2">>}

\* TransactionStatus<Hash, BlockHash> of sc_transaction_pool_api, over the
\* given payload values.
TransactionStatus(hashes, indexes, peerLists) ==
    {[kind |-> k] : k \in {"Ready", "Future", "Dropped", "Invalid"}}
    \cup {[kind |-> "Broadcast", peers |-> p] : p \in peerLists}
    \cup {[kind |-> k, hash |-> h, index |-> i] :
            k \in {"InBlock", "Finalized"}, h \in hashes, i \in indexes}
    \cup {[kind |-> k, hash |-> h] :
            k \in {"Retracted", "FinalityTimeout", "Usurped"}, h \in hashes}

\* Every status the translator is fed in SpecT.
RawStatus == TransactionStatus(Hashes, Indexes, PeerLists)

\* The statuses the pool's watcher emits in Spec: one status for each kind of
\* event handle_event produces, and a Broadcast with and without peers.
PoolStatus ==
    {st \in TransactionStatus({"h1"}, {1}, {<<>>, <<"p1", "p2">>}) :
        st.kind \notin {"Future", "Usurped", "Dropped"}}

\* Payloads handed to submit_and_watch: the empty one does not decode.
Payloads == {<<>>, <<"tx">>}

\* Errors the pool's submit_and_watch future can resolve to.
PoolErrors == {"InvalidTransaction", "ImmediatelyDropped"}

\* ---------------------------------------------------------------- events
Validated == [kind |-> "Validated"]
Broadcasted(n) == [kind |-> "Broadcasted", num_peers |-> n]
BestChainBlockIncluded(block) == [kind |-> "BestChainBlockIncluded", block |-> block]
Finalized(block) == [kind |-> "Finalized", block |-> block]
InvalidEvent(error) == [kind |-> "Invalid", error |-> error]
DroppedEvent(b, error) == [kind |-> "Dropped", broadcasted |-> b, error |-> error]
TransactionBlock(hash, index) == [hash |-> hash, index |-> index]

\* Option<T>: None is the empty sequence, Some(x) the sequence of x alone.
None == <<>>
Some(x) == <<x>>

\* ------------------------------------------------------- TransactionState
TransactionState_new == [broadcasted |-> FALSE]

\* self.broadcasted after the Broadcast arm has run (line 172).
set_broadcasted_resetting(self, peers) == Len(peers) # 0
set_broadcasted(self, peers) == self.broadcasted \/ Len(peers) # 0

\* The TransactionState handle_event leaves behind in *self.
state_after(self, event) ==
    IF event.kind = "Broadcast"
    THEN [self EXCEPT !.broadcasted = set_broadcasted(self, event.peers)]
    ELSE self

\* The value of the match of handle_event; self is the state after the arm's
\* own assignment (only the Broadcast arm assigns, only FinalityTimeout reads).
translate_retractedAsIncluded(self, event) ==
    CASE event.kind \in {"Ready", "Future"} -> Some(Validated)
      [] event.kind = "Broadcast" -> Some(Broadcasted(Len(event.peers)))
      [] event.kind = "InBlock" ->
            Some(BestChainBlockIncluded(Some(TransactionBlock(event.hash, event.index))))
      [] event.kind = "Retracted" ->
            Some(BestChainBlockIncluded(Some(TransactionBlock(event.hash, 0))))
      [] event.kind = "FinalityTimeout" ->
            Some(DroppedEvent(self.broadcasted,
                              "Maximum number of finality watchers has been reached"))
      [] event.kind = "Finalized" ->
            Some(Finalized(TransactionBlock(event.hash, event.index)))
      [] event.kind = "Usurped" ->
            Some(InvalidEvent("Extrinsic was rendered invalid by another extrinsic"))
      [] event.kind = "Dropped" ->
            Some(InvalidEvent("Extrinsic dropped from the pool due to exceeding limits"))
      [] event.kind = "Invalid" ->
            Some(InvalidEvent("Extrinsic marked as invalid"))
translate_droppedReadsFlag(self, event) ==
    CASE event.kind \in {"Ready", "Future"} -> Some(Validated)
      [] event.kind = "Broadcast" -> Some(Broadcasted(Len(event.peers)))
      [] event.kind = "InBlock" ->
            Some(BestChainBlockIncluded(Some(TransactionBlock(event.hash, event.index))))
      [] event.kind = "Retracted" -> Some(BestChainBlockIncluded(None))
      [] event.kind = "FinalityTimeout" ->
            Some(DroppedEvent(self.broadcasted,
                              "Maximum number of finality watchers has been reached"))
      [] event.kind = "Finalized" ->
            Some(Finalized(TransactionBlock(event.hash, event.index)))
      [] event.kind = "Usurped" ->
            Some(InvalidEvent("Extrinsic was rendered invalid by another extrinsic"))
      [] event.kind = "Dropped" ->
            Some(IF self.broadcasted
                 THEN DroppedEvent(TRUE, "Extrinsic dropped from the pool due to exceeding limits")
                 ELSE InvalidEvent("Extrinsic dropped from the pool due to exceeding limits"))
      [] event.kind = "Invalid" ->
            Some(InvalidEvent("Extrinsic marked as invalid"))
translate_usurpedAsInvalidText(self, event) ==
    CASE event.kind \in {"Ready", "Future"} -> Some(Validated)
      [] event.kind = "Broadcast" -> Some(Broadcasted(Len(event.peers)))
      [] event.kind = "InBlock" ->
            Some(BestChainBlockIncluded(Some(TransactionBlock(event.hash, event.index))))
      [] event.kind = "Retracted" -> Some(BestChainBlockIncluded(None))
      [] event.kind = "FinalityTimeout" ->
            Some(DroppedEvent(self.broadcasted,
                              "Maximum number of finality watchers has been reached"))
      [] event.kind = "Finalized" ->
            Some(Finalized(TransactionBlock(event.hash, event.index)))
      [] event.kind = "Usurped" ->
            Some(InvalidEvent("Extrinsic marked as invalid"))
      [] event.kind = "Dropped" ->
            Some(InvalidEvent("Extrinsic dropped from the pool due to exceeding limits"))
      [] event.kind = "Invalid" ->
            Some(InvalidEvent("Extrinsic marked as invalid"))
translate(self, event) ==
    CASE event.kind \in {"Ready", "Future"} -> Some(Validated)
      [] event.kind = "Broadcast" -> Some(Broadcasted(Len(event.peers)))
      [] event.kind = "InBlock" ->
            Some(BestChainBlockIncluded(Some(TransactionBlock(event.hash, event.index))))
      [] event.kind = "Retracted" -> Some(BestChainBlockIncluded(None))
      [] event.kind = "FinalityTimeout" ->
            Some(DroppedEvent(self.broadcasted,
                              "Maximum number of finality watchers has been reached"))
      [] event.kind = "Finalized" ->
            Some(Finalized(TransactionBlock(event.hash, event.index)))
      [] event.kind = "Usurped" ->
            Some(InvalidEvent("Extrinsic was rendered invalid by another extrinsic"))
      [] event.kind = "Dropped" ->
            Some(InvalidEvent("Extrinsic dropped from the pool due to exceeding limits"))
      [] event.kind = "Invalid" ->
            Some(InvalidEvent("Extrinsic marked as invalid"))

\* handle_event(&mut self, event): the state it leaves in *self and the
\* Option<TransactionEvent> it returns.
handle_event_dedupFuture(self, event) ==
    [self |-> state_after(self, event),
     ret  |-> IF event.kind = "Future" THEN None
              ELSE translate(state_after(self, event), event)]
handle_event(self, event) ==
    [self |-> state_after(self, event),
     ret  |-> translate(state_after(self, event), event)]

\* ------------------------------------------------------------------ state
VARIABLES
    \* SpecT: one TransactionState and the statuses it has handled.
    self,        \* the TransactionState that handle_event borrows mutably
    input,       \* the statuses handled so far, in order
    output,      \* the events handle_event returned for them, in order
    \* Spec: per subscription (one call of submit_and_watch each).
    best,        \* client.info().best_hash
    arg,         \* the payload submit_and_watch was called with: None or Some(xt)
    pc,          \* "idle" | "rejected" | "awaiting" | "piping" | "errpipe" | "done"
    ret,         \* what the call returned: None or Some("Ok")
    rejects,     \* error codes sink.reject was called with, in order
    poolCalls,   \* the arguments of each pool.submit_and_watch invocation
    spawned,     \* number of tasks given to executor.spawn
    submit,      \* what `submit.await` gave: None, Some("stream"), Some(error)
    state,       \* the TransactionState of line 121: None or Some(state)
    backend,     \* the statuses the pool's watcher has emitted, in order
    ended,       \* the pool has closed the watcher's stream
    consumed,    \* number of statuses the stream closure has translated
    delivered,   \* the events the sink has sent to the remote consumer
    connected,   \* the remote consumer is still there
    pipeRes      \* what pipe_from_stream returned: None or Some(SubscriptionClosed)

tvars == <<self, input, output>>
pvars == <<best, arg, pc, ret, rejects, poolCalls, spawned, submit, state, backend,
           ended, consumed, delivered, connected, pipeRes>>
vars == <<self, input, output, best, arg, pc, ret, rejects, poolCalls, spawned, submit,
          state, backend, ended, consumed, delivered, connected, pipeRes>>

Init ==
    /\ self = TransactionState_new
    /\ input = <<>>
    /\ output = <<>>
    /\ best = ImportOrder[1]
    /\ arg = [s \in Subs |-> None]
    /\ pc = [s \in Subs |-> "idle"]
    /\ ret = [s \in Subs |-> None]
    /\ rejects = [s \in Subs |-> <<>>]
    /\ poolCalls = [s \in Subs |-> <<>>]
    /\ spawned = [s \in Subs |-> 0]
    /\ submit = [s \in Subs |-> None]
    /\ state = [s \in Subs |-> None]
    /\ backend = [s \in Subs |-> <<>>]
    /\ ended = [s \in Subs |-> FALSE]
    /\ consumed = [s \in Subs |-> 0]
    /\ delivered = [s \in Subs |-> <<>>]
    /\ connected = [s \in Subs |-> TRUE]
    /\ pipeRes = [s \in Subs |-> None]

\* --------------------------------------------------------------- SpecT
\* One more status handled by the same TransactionState: state.handle_event(event)
\* with `state` borrowed mutably, the returned Option collected as filter_map does.
Feed(event) ==
    /\ Len(input) < MaxLen
    /\ self' = handle_event(self, event).self
    /\ input' = Append(input, event)
    /\ output' = output \o handle_event(self, event).ret
    /\ UNCHANGED pvars

NextT == \E event \in RawStatus : Feed(event)

SpecT == Init /\ [][NextT]_vars

\* ---------------------------------------------------------------- Spec
\* TransactionFor::<Pool>::decode(&mut &xt[..]) (line 94): fails on the empty
\* payload, otherwise yields the transaction the bytes encode.
decode(xt) == IF Len(xt) = 0 THEN [ok |-> FALSE] ELSE [ok |-> TRUE, tx |-> xt[1]]

\* The Err arm of the decode (lines 96-104): reject the sink with BAD_FORMAT
\* and return Ok(()) without touching the pool or the executor.
reject_bad_format_silent(s) ==
    /\ pc' = [pc EXCEPT ![s] = "rejected"]
    /\ ret' = [ret EXCEPT ![s] = Some("Ok")]
    /\ UNCHANGED <<rejects, poolCalls, spawned>>
reject_bad_format_thenSpawn(s) ==
    /\ rejects' = [rejects EXCEPT ![s] = Append(@, BAD_FORMAT)]
    /\ spawned' = [spawned EXCEPT ![s] = @ + 1]
    /\ pc' = [pc EXCEPT ![s] = "awaiting"]
    /\ ret' = [ret EXCEPT ![s] = Some("Ok")]
    /\ UNCHANGED <<poolCalls>>
reject_bad_format(s) ==
    /\ rejects' = [rejects EXCEPT ![s] = Append(@, BAD_FORMAT)]
    /\ pc' = [pc EXCEPT ![s] = "rejected"]
    /\ ret' = [ret EXCEPT ![s] = Some("Ok")]
    /\ UNCHANGED <<poolCalls, spawned>>

\* Lines 107-136: read the best hash, build the pool's future, build the task's
\* future around it, spawn the task, return Ok(()).  Nothing is awaited here.
submit_decoded_staleBest(s, tx) ==
    /\ poolCalls' = [poolCalls EXCEPT
                        ![s] = Append(@, [at |-> ImportOrder[1], source |-> TX_SOURCE,
                                          xt |-> tx])]
    /\ spawned' = [spawned EXCEPT ![s] = @ + 1]
    /\ pc' = [pc EXCEPT ![s] = "awaiting"]
    /\ ret' = [ret EXCEPT ![s] = Some("Ok")]
    /\ UNCHANGED rejects
submit_decoded_awaitFirst(s, tx) ==
    /\ poolCalls' = [poolCalls EXCEPT
                        ![s] = Append(@, [at |-> best, source |-> TX_SOURCE, xt |-> tx])]
    /\ pc' = [pc EXCEPT ![s] = "awaiting"]
    /\ UNCHANGED <<spawned, ret, rejects>>
submit_decoded(s, tx) ==
    /\ poolCalls' = [poolCalls EXCEPT
                        ![s] = Append(@, [at |-> best, source |-> TX_SOURCE, xt |-> tx])]
    /\ spawned' = [spawned EXCEPT ![s] = @ + 1]
    /\ pc' = [pc EXCEPT ![s] = "awaiting"]
    /\ ret' = [ret EXCEPT ![s] = Some("Ok")]
    /\ UNCHANGED rejects

\* fn submit_and_watch(&self, sink, xt) (lines 91-137), for the subscription s.
submit_and_watch(s, xt) ==
    /\ pc[s] = "idle"
    /\ \A i \in DOMAIN CallOrder : CallOrder[i] = s => \A j \in 1..(i - 1) : pc[CallOrder[j]] # "idle"
    /\ IF decode(xt).ok THEN submit_decoded(s, decode(xt).tx) ELSE reject_bad_format(s)
    /\ arg' = [arg EXCEPT ![s] = Some(xt)]
    /\ UNCHANGED <<best, submit, state, backend, ended, consumed, delivered,
                   connected, pipeRes>>
    /\ UNCHANGED tvars

\* The client imports a block: client.info().best_hash changes.
NewBest(h) ==
    /\ \E i \in 1..(Len(ImportOrder) - 1) : ImportOrder[i] = best /\ ImportOrder[i + 1] = h
    /\ \E s \in Subs : pc[s] = "idle"
    /\ best' = h
    /\ UNCHANGED <<arg, pc, ret, rejects, poolCalls, spawned, submit, state, backend,
                   ended, consumed, delivered, connected, pipeRes>>
    /\ UNCHANGED tvars

\* `submit.await` gives Ok(stream) (lines 119-123): the task creates the
\* TransactionState and wraps the stream in the filter_map closure.
AwaitOk(s) ==
    /\ pc[s] = "awaiting"
    /\ submit' = [submit EXCEPT ![s] = Some("stream")]
    /\ state' = [state EXCEPT ![s] = Some(TransactionState_new)]
    /\ pc' = [pc EXCEPT ![s] = "piping"]
    /\ UNCHANGED <<arg, best, ret, rejects, poolCalls, spawned, backend, ended, consumed,
                   delivered, connected, pipeRes>>
    /\ UNCHANGED tvars

\* `submit.await` gives Err(err) (lines 119, 126): no TransactionState.
AwaitErr(s, err) ==
    /\ pc[s] = "awaiting"
    /\ submit' = [submit EXCEPT ![s] = Some(err)]
    /\ pc' = [pc EXCEPT ![s] = "errpipe"]
    /\ UNCHANGED <<arg, best, ret, rejects, poolCalls, spawned, state, backend, ended,
                   consumed, delivered, connected, pipeRes>>
    /\ UNCHANGED tvars

\* err.into() (line 129): the TransactionEvent an Error converts to.
ErrorToEvent(err) ==
    IF err = "ImmediatelyDropped"
    THEN DroppedEvent(FALSE, err)
    ELSE InvalidEvent(err)

\* The closure of line 123, |event| async move { state.handle_event(event) },
\* called with the closure's captured TransactionState `captured`.
\* TransactionState is Copy (line 147), so `async move` moves a copy of the
\* captured state into the block; handle_event mutates that copy, which is
\* dropped when the block completes.  The captured state is never written.
\* (closure_call_carried is the closure with the state borrowed instead of
\* copied: under it the captured state follows the statuses handled.)
closure_call_carried(captured, event) ==
    [captured |-> handle_event(captured, event).self,
     ret      |-> handle_event(captured, event).ret]
closure_call(captured, event) ==
    LET copy == captured
    IN  [captured |-> captured,
         ret      |-> handle_event(copy, event).ret]

RECURSIVE SumLen(_, _)
SumLen(f, S) ==
    IF S = {} THEN 0
    ELSE LET s == CHOOSE x \in S : TRUE IN Len(f[s]) + SumLen(f, S \ {s})

\* The pool's watcher emits one more status into the stream of s.  The pool
\* keeps emitting whether or not anything still reads the stream.
PoolEmit(s, status) ==
    /\ submit[s] = Some("stream")
    /\ ~ended[s]
    /\ SumLen(backend, Subs) < MaxBackend
    /\ backend' = [backend EXCEPT ![s] = Append(@, status)]
    /\ UNCHANGED <<arg, best, pc, ret, rejects, poolCalls, spawned, submit, state, ended,
                   consumed, delivered, connected, pipeRes>>
    /\ UNCHANGED tvars

\* The pool closes the watcher's stream.
PoolEnd(s) ==
    /\ submit[s] = Some("stream")
    /\ ~ended[s]
    /\ ended' = [ended EXCEPT ![s] = TRUE]
    /\ UNCHANGED <<arg, best, pc, ret, rejects, poolCalls, spawned, submit, state, backend,
                   consumed, delivered, connected, pipeRes>>
    /\ UNCHANGED tvars

\* The remote consumer of an accepted subscription goes away.
Disconnect(s) ==
    /\ pc[s] \in {"awaiting", "piping", "errpipe"}
    /\ connected[s]
    /\ connected' = [connected EXCEPT ![s] = FALSE]
    /\ UNCHANGED <<arg, best, pc, ret, rejects, poolCalls, spawned, submit, state, backend,
                   ended, consumed, delivered, pipeRes>>
    /\ UNCHANGED tvars

\* sink.pipe_from_stream(stream.boxed()) (line 124), one turn of its loop with
\* an item ready: the filter_map stream pulls the next status and runs the
\* closure on it; the pipe sends the event, and ends with RemotePeerAborted
\* when the send finds the remote consumer gone.
PipeItem_sharedState(s) ==
    /\ pc[s] = "piping"
    /\ consumed[s] < Len(backend[s])
    /\ LET r == closure_call_carried(state[s][1], backend[s][consumed[s] + 1])
       IN  /\ state' = [t \in Subs |-> IF state[t] = None THEN None ELSE Some(r.captured)]
           /\ consumed' = [consumed EXCEPT ![s] = @ + 1]
           /\ IF r.ret # None /\ ~connected[s]
              THEN /\ pc' = [pc EXCEPT ![s] = "done"]
                   /\ pipeRes' = [pipeRes EXCEPT ![s] = Some("RemotePeerAborted")]
                   /\ UNCHANGED delivered
              ELSE /\ delivered' = [delivered EXCEPT ![s] = @ \o r.ret]
                   /\ UNCHANGED <<pc, pipeRes>>
    /\ UNCHANGED <<arg, best, ret, rejects, poolCalls, spawned, submit, backend, ended,
                   connected>>
    /\ UNCHANGED tvars
PipeItem_endsOnTerminal(s) ==
    /\ pc[s] = "piping"
    /\ consumed[s] < Len(backend[s])
    /\ LET r == closure_call(state[s][1], backend[s][consumed[s] + 1])
           last == backend[s][consumed[s] + 1].kind
                      \in {"Finalized", "FinalityTimeout", "Usurped", "Dropped", "Invalid"}
       IN  /\ state' = [state EXCEPT ![s] = Some(r.captured)]
           /\ consumed' = [consumed EXCEPT ![s] = @ + 1]
           /\ IF r.ret # None /\ ~connected[s]
              THEN /\ pc' = [pc EXCEPT ![s] = "done"]
                   /\ pipeRes' = [pipeRes EXCEPT ![s] = Some("RemotePeerAborted")]
                   /\ UNCHANGED delivered
              ELSE /\ delivered' = [delivered EXCEPT ![s] = @ \o r.ret]
                   /\ IF last
                      THEN /\ pc' = [pc EXCEPT ![s] = "done"]
                           /\ pipeRes' = [pipeRes EXCEPT ![s] = Some("Success")]
                      ELSE UNCHANGED <<pc, pipeRes>>
    /\ UNCHANGED <<arg, best, ret, rejects, poolCalls, spawned, submit, backend, ended,
                   connected>>
    /\ UNCHANGED tvars
PipeItem_ignoreSendResult(s) ==
    /\ pc[s] \in {"piping", "done"}
    /\ submit[s] = Some("stream")
    /\ consumed[s] < Len(backend[s])
    /\ LET r == closure_call(state[s][1], backend[s][consumed[s] + 1])
       IN  /\ state' = [state EXCEPT ![s] = Some(r.captured)]
           /\ consumed' = [consumed EXCEPT ![s] = @ + 1]
           /\ delivered' = [delivered EXCEPT ![s] = @ \o r.ret]
           /\ IF r.ret # None /\ ~connected[s]
              THEN /\ pc' = [pc EXCEPT ![s] = "done"]
                   /\ pipeRes' = [pipeRes EXCEPT ![s] = Some("RemotePeerAborted")]
              ELSE UNCHANGED <<pc, pipeRes>>
    /\ UNCHANGED <<arg, best, ret, rejects, poolCalls, spawned, submit, backend, ended,
                   connected>>
    /\ UNCHANGED tvars
PipeItem(s) ==
    /\ pc[s] = "piping"
    /\ consumed[s] < Len(backend[s])
    /\ LET r == closure_call(state[s][1], backend[s][consumed[s] + 1])
       IN  /\ state' = [state EXCEPT ![s] = Some(r.captured)]
           /\ consumed' = [consumed EXCEPT ![s] = @ + 1]
           /\ IF r.ret # None /\ ~connected[s]
              THEN /\ pc' = [pc EXCEPT ![s] = "done"]
                   /\ pipeRes' = [pipeRes EXCEPT ![s] = Some("RemotePeerAborted")]
                   /\ UNCHANGED delivered
              ELSE /\ delivered' = [delivered EXCEPT ![s] = @ \o r.ret]
                   /\ UNCHANGED <<pc, pipeRes>>
    /\ UNCHANGED <<arg, best, ret, rejects, poolCalls, spawned, submit, backend, ended,
                   connected>>
    /\ UNCHANGED tvars

\* pipe_from_stream (line 124) sees the connection closed while it waits for
\* the next item: it returns RemotePeerAborted and the task ends.
PipeClosed(s) ==
    /\ pc[s] = "piping"
    /\ ~connected[s]
    /\ pc' = [pc EXCEPT ![s] = "done"]
    /\ pipeRes' = [pipeRes EXCEPT ![s] = Some("RemotePeerAborted")]
    /\ UNCHANGED <<arg, best, ret, rejects, poolCalls, spawned, submit, state, backend,
                   ended, consumed, delivered, connected>>
    /\ UNCHANGED tvars

\* pipe_from_stream (line 124) finds the stream finished: it returns Success,
\* the task ends and drops the sink.
PipeEnd_beforeLastItem(s) ==
    /\ pc[s] = "piping"
    /\ ended[s]
    /\ pc' = [pc EXCEPT ![s] = "done"]
    /\ pipeRes' = [pipeRes EXCEPT ![s] = Some("Success")]
    /\ UNCHANGED <<arg, best, ret, rejects, poolCalls, spawned, submit, state, backend,
                   ended, consumed, delivered, connected>>
    /\ UNCHANGED tvars
PipeEnd(s) ==
    /\ pc[s] = "piping"
    /\ ended[s]
    /\ consumed[s] = Len(backend[s])
    /\ pc' = [pc EXCEPT ![s] = "done"]
    /\ pipeRes' = [pipeRes EXCEPT ![s] = Some("Success")]
    /\ UNCHANGED <<arg, best, ret, rejects, poolCalls, spawned, submit, state, backend,
                   ended, consumed, delivered, connected>>
    /\ UNCHANGED tvars

\* The Err arm of the task (lines 126-131): pipe the one-item stream that holds
\* the event of the error, then end.
PipeError_silent(s) ==
    /\ pc[s] = "errpipe"
    /\ pc' = [pc EXCEPT ![s] = "done"]
    /\ pipeRes' = [pipeRes EXCEPT ![s] = Some(IF connected[s] THEN "Success"
                                                            ELSE "RemotePeerAborted")]
    /\ UNCHANGED <<arg, best, ret, rejects, poolCalls, spawned, submit, state, backend,
                   ended, consumed, delivered, connected>>
    /\ UNCHANGED tvars
PipeError_twice(s) ==
    /\ pc[s] = "errpipe"
    /\ pc' = [pc EXCEPT ![s] = "done"]
    /\ IF connected[s]
       THEN /\ delivered' = [delivered EXCEPT
                                ![s] = @ \o <<ErrorToEvent(submit[s][1]),
                                              ErrorToEvent(submit[s][1])>>]
            /\ pipeRes' = [pipeRes EXCEPT ![s] = Some("Success")]
       ELSE /\ pipeRes' = [pipeRes EXCEPT ![s] = Some("RemotePeerAborted")]
            /\ UNCHANGED delivered
    /\ UNCHANGED <<arg, best, ret, rejects, poolCalls, spawned, submit, state, backend,
                   ended, consumed, connected>>
    /\ UNCHANGED tvars
PipeError(s) ==
    /\ pc[s] = "errpipe"
    /\ pc' = [pc EXCEPT ![s] = "done"]
    /\ IF connected[s]
       THEN /\ delivered' = [delivered EXCEPT ![s] = Append(@, ErrorToEvent(submit[s][1]))]
            /\ pipeRes' = [pipeRes EXCEPT ![s] = Some("Success")]
       ELSE /\ pipeRes' = [pipeRes EXCEPT ![s] = Some("RemotePeerAborted")]
            /\ UNCHANGED delivered
    /\ UNCHANGED <<arg, best, ret, rejects, poolCalls, spawned, submit, state, backend,
                   ended, consumed, connected>>
    /\ UNCHANGED tvars

Next ==
    \/ \E s \in Subs, xt \in Payloads : submit_and_watch(s, xt)
    \/ \E h \in Hashes : NewBest(h)
    \/ \E s \in Subs : AwaitOk(s)
    \/ \E s \in Subs, err \in PoolErrors : AwaitErr(s, err)
    \/ \E s \in Subs, status \in PoolStatus : PoolEmit(s, status)
    \/ \E s \in Subs : PoolEnd(s)
    \/ \E s \in Subs : Disconnect(s)
    \/ \E s \in Subs : PipeItem(s)
    \/ \E s \in Subs : PipeClosed(s)
    \/ \E s \in Subs : PipeEnd(s)
    \/ \E s \in Subs : PipeError(s)

Spec == Init /\ [][Next]_vars

\* The steps of the task spawned on line 135 once the pool's future has resolved:
\* the turns of pipe_from_stream.  The executor polls a task that can make
\* progress, so each subscription's task is weakly fair; nothing obliges the
\* pool to resolve its future, to emit or to close the stream.
TaskRun(s) == PipeItem(s) \/ PipeClosed(s) \/ PipeEnd(s) \/ PipeError(s)

SpecLive == Init /\ [][Next]_vars /\ \A s \in Subs : WF_vars(TaskRun(s))

\* ================================================================ claims
IsPrefix(a, b) == Len(a) <= Len(b) /\ \A i \in 1..Len(a) : a[i] = b[i]

HasPeers(status) == status.kind = "Broadcast" /\ Len(status.peers) > 0

\* The events one TransactionState, carried from each status to the next,
\* gives for the statuses in order.
RECURSIVE translate_in_order(_, _)
translate_in_order(st, statuses) ==
    IF statuses = <<>> THEN <<>>
    ELSE handle_event(st, Head(statuses)).ret
            \o translate_in_order(handle_event(st, Head(statuses)).self, Tail(statuses))

IsStream(s) == submit[s] = Some("stream")
IsRefused(s) == submit[s] # None /\ submit[s][1] \in PoolErrors

\* C1: within one subscription, the Dropped event delivered for a
\* FinalityTimeout status carries broadcasted = TRUE exactly when an earlier
\* Broadcast status of that subscription had at least one peer.
C1_DroppedReportsEarlierBroadcast ==
    \A s \in Subs :
        IsStream(s) =>
            \A i \in 1..Len(delivered[s]) :
                backend[s][i].kind = "FinalityTimeout" =>
                    /\ delivered[s][i].kind = "Dropped"
                    /\ delivered[s][i].broadcasted =
                          (\E j \in 1..(i - 1) : HasPeers(backend[s][j]))

\* What the code delivers instead: every status of a subscription is handled by
\* a copy of the TransactionState of line 121, which is never written, so a
\* Dropped event of a stream always carries broadcasted = FALSE and each event
\* is the translation of its status by a fresh state.
StateIsNeverWritten ==
    \A s \in Subs : state[s] \in {None, Some(TransactionState_new)}

DeliveredIsPerStatusTranslation ==
    \A s \in Subs :
        IsStream(s) =>
            /\ Len(delivered[s]) <= Len(backend[s])
            /\ \A i \in 1..Len(delivered[s]) :
                  Some(delivered[s][i]) = handle_event(TransactionState_new, backend[s][i]).ret

\* C2: handle_event returns Some(event) for every status, so a fresh
\* TransactionState fed n statuses has produced n events; nothing is
\* deduplicated.
C2_OneEventPerStatus ==
    Len(output) = Len(input)

C2_Witness ==
    /\ input = <<[kind |-> "Ready"], [kind |-> "Ready"], [kind |-> "Future"]>>
    /\ output = <<Validated, Validated, Validated>>

\* The row of the transition table for one status and the event produced.
TableRow(status, event) ==
    CASE status.kind \in {"Ready", "Future"} -> event = [kind |-> "Validated"]
      [] status.kind = "Broadcast" ->
            event = [kind |-> "Broadcasted", num_peers |-> Len(status.peers)]
      [] status.kind = "InBlock" ->
            event = [kind |-> "BestChainBlockIncluded",
                     block |-> <<[hash |-> status.hash, index |-> status.index]>>]
      [] status.kind = "Retracted" ->
            event = [kind |-> "BestChainBlockIncluded", block |-> <<>>]
      [] status.kind = "Finalized" ->
            event = [kind |-> "Finalized",
                     block |-> [hash |-> status.hash, index |-> status.index]]
      [] status.kind = "FinalityTimeout" -> event.kind = "Dropped"
      [] status.kind \in {"Usurped", "Dropped", "Invalid"} -> event.kind = "Invalid"

\* C3: whatever the broadcasted flag, the event handle_event produces for a
\* status is the one the transition table gives, payload included.
C3_EventsFollowTable ==
    \A i \in 1..Len(input) :
        /\ i <= Len(output)
        /\ TableRow(input[i], output[i])

C3_Witness ==
    /\ Len(input) = 3
    /\ HasPeers(input[1])
    /\ input[2] = [kind |-> "Retracted", hash |-> "h2"]
    /\ input[3] = [kind |-> "InBlock", hash |-> "h2", index |-> 1]
    /\ output[2] = BestChainBlockIncluded(None)
    /\ output[3] = BestChainBlockIncluded(Some(TransactionBlock("h2", 1)))

WasCalled(s) == arg[s] # None
Malformed(s) == WasCalled(s) /\ ~decode(arg[s][1]).ok
Decoded(s) == WasCalled(s) /\ decode(arg[s][1]).ok

\* C5: a payload that does not decode gets one sink rejection with code 1001
\* and nothing else: no pool submission, no task, no subscription, no event.
C5_MalformedIsRejectedOnce ==
    \A s \in Subs :
        Malformed(s) =>
            /\ rejects[s] = <<1001>>
            /\ poolCalls[s] = <<>>
            /\ spawned[s] = 0
            /\ submit[s] = None
            /\ state[s] = None
            /\ consumed[s] = 0
            /\ delivered[s] = <<>>

C5_Witness ==
    \E s, t \in Subs :
        /\ Malformed(s)
        /\ rejects[s] = <<BAD_FORMAT>>
        /\ Decoded(t)
        /\ delivered[t] # <<>>

\* C6: when the pool's future resolves to an error the call has returned
\* acceptance without rejecting the sink, no TransactionState exists, at most
\* the one event of the error is delivered, and a task that ends with its sink
\* still connected has delivered exactly that event.
C6_RefusalIsOneEvent ==
    \A s \in Subs :
        IsRefused(s) =>
            /\ ret[s] = Some("Ok")
            /\ rejects[s] = <<>>
            /\ state[s] = None
            /\ consumed[s] = 0
            /\ IsPrefix(delivered[s], <<ErrorToEvent(submit[s][1])>>)
            /\ ErrorToEvent(submit[s][1]).kind \in {"Invalid", "Dropped"}
            /\ (pc[s] = "done" /\ connected[s]) =>
                    /\ delivered[s] = <<ErrorToEvent(submit[s][1])>>
                    /\ pipeRes[s] = Some("Success")

C6_Witness ==
    \E s \in Subs :
        /\ IsRefused(s)
        /\ pc[s] = "done"
        /\ connected[s]
        /\ Len(delivered[s]) = 1

\* C7: the events delivered to a subscription's sink are always a prefix of
\* the translation, in order, of the statuses the pool emitted for it.
C7_DeliveredIsPrefixOfTranslation ==
    \A s \in Subs :
        IsStream(s) =>
            IsPrefix(delivered[s], translate_in_order(TransactionState_new, backend[s]))

\* C8: nothing is delivered to a sink whose remote consumer is gone, and once
\* the pipe has reported RemotePeerAborted the task has ended: no status is
\* translated and no event delivered from then on, whatever the pool emits.
C8_NothingAfterDisconnect ==
    [][\A s \in Subs :
          /\ ~connected[s] => delivered'[s] = delivered[s]
          /\ pipeRes[s] = Some("RemotePeerAborted") =>
                /\ pc[s] = "done"
                /\ pc'[s] = "done"
                /\ consumed'[s] = consumed[s]
                /\ delivered'[s] = delivered[s]]_vars

C8_Witness ==
    \E s \in Subs :
        /\ pipeRes[s] = Some("RemotePeerAborted")
        /\ delivered[s] # <<>>
        /\ Len(backend[s]) > consumed[s]

\* C9: the disconnection of one subscription's sink changes neither the
\* TransactionState nor the delivered events of another subscription, and the
\* other subscription goes on delivering the translation of its own statuses.
C9_DisconnectLeavesOthersAlone ==
    /\ [][\A s \in Subs :
            (connected[s] /\ ~connected'[s]) =>
                \A t \in Subs \ {s} :
                    state'[t] = state[t] /\ delivered'[t] = delivered[t]]_vars
    /\ [](\A s \in Subs :
            ~connected[s] =>
                \A t \in Subs \ {s} :
                    IsStream(t) =>
                        IsPrefix(delivered[t],
                                 translate_in_order(TransactionState_new, backend[t])))

\* C10: a call with a payload that decodes has spawned its task and returned
\* acceptance before the pool's future is awaited: the result of the future is
\* only ever observed by a spawned task, after the call returned.
C10_SpawnedBeforeAwait ==
    \A s \in Subs :
        /\ Decoded(s) => (ret[s] = Some("Ok") /\ spawned[s] = 1 /\ rejects[s] = <<>>)
        /\ submit[s] # None => (ret[s] = Some("Ok") /\ spawned[s] = 1)

C10_Witness ==
    \E s \in Subs :
        /\ Decoded(s)
        /\ ret[s] = Some("Ok")
        /\ spawned[s] = 1
        /\ pc[s] = "awaiting"
        /\ submit[s] = None

\* The statuses the pool treats as the last of a transaction.
IsTerminal(status) ==
    status.kind \in {"Finalized", "FinalityTimeout", "Usurped", "Dropped", "Invalid"}

\* C11: the task of a stream never ends on its own account: it ends only with
\* Success once the pool has closed the stream and every status was translated,
\* or with RemotePeerAborted once the remote consumer is gone; until then a
\* pending status can always be translated, also after a terminal status, and
\* every translated status has been delivered while the sink is connected.
C11_OnlyStreamEndOrDisconnectEnds ==
    \A s \in Subs :
        IsStream(s) =>
            /\ pc[s] \in {"piping", "done"}
            /\ pc[s] = "done" =>
                  \/ /\ pipeRes[s] = Some("Success")
                     /\ ended[s]
                     /\ consumed[s] = Len(backend[s])
                  \/ /\ pipeRes[s] = Some("RemotePeerAborted")
                     /\ ~connected[s]
            /\ (pc[s] = "piping" /\ consumed[s] < Len(backend[s])) => ENABLED PipeItem(s)
            /\ connected[s] => Len(delivered[s]) = consumed[s]

C11_Witness ==
    \E s \in Subs :
        /\ IsStream(s)
        /\ Len(backend[s]) = 2
        /\ IsTerminal(backend[s][1])
        /\ Len(delivered[s]) = 2
        /\ delivered[s][2].kind = "Validated"

\* The n-th status of s has been delivered as the event of its table row.
DeliveredAsTableRow(s, n) ==
    IF Len(backend[s]) >= n /\ Len(delivered[s]) >= n
    THEN TableRow(backend[s][n], delivered[s][n])
    ELSE FALSE

\* The task of s has ended with Success and every status delivered.
FinishedAfterLast(s) ==
    IF pc[s] = "done"
    THEN pipeRes[s] = Some("Success") /\ Len(delivered[s]) = Len(backend[s])
    ELSE FALSE

ClosedWhileConnected(s) == Decoded(s) /\ pc[s] = "done" /\ connected[s]

\* C13 as stated: an accepted subscription whose sink stays connected has
\* delivered at least one event by the time it closes, whatever the pool did.
C13_NeverClosedWithoutEvent ==
    \A s \in Subs : ClosedWhileConnected(s) => delivered[s] # <<>>

\* C13 as amended: an accepted subscription that closes with its sink connected
\* has delivered the event of the pool's refusal, or one event for each status
\* of the pool's stream; it has delivered nothing only when the pool closed its
\* stream without emitting any status.
C13_ClosedWithoutEventOnlyOnEmptyStream ==
    \A s \in Subs :
        ClosedWhileConnected(s) =>
            /\ IsRefused(s) => delivered[s] = <<ErrorToEvent(submit[s][1])>>
            /\ IsStream(s) => Len(delivered[s]) = Len(backend[s])
            /\ delivered[s] = <<>> => (IsStream(s) /\ ended[s] /\ backend[s] = <<>>)

C13_Witness ==
    \E s, t \in Subs :
        /\ ClosedWhileConnected(s)
        /\ IsRefused(s)
        /\ Len(delivered[s]) = 1
        /\ ClosedWhileConnected(t)
        /\ IsStream(t)
        /\ Len(delivered[t]) = 2

\* The step translates one more status of s.
Handles(s) == consumed'[s] = consumed[s] + 1

\* The step delivers to s a Dropped event of its stream that reports a broadcast.
ReportsBroadcast(s) ==
    /\ IsStream(s)
    /\ Len(delivered'[s]) = Len(delivered[s]) + 1
    /\ LET e == delivered'[s][Len(delivered'[s])]
       IN  IF e.kind = "Dropped" THEN e.broadcasted ELSE FALSE

\* C14: the TransactionState of a subscription is created fresh when its stream
\* is obtained and belongs to it alone: handling a status of one subscription
\* changes neither the TransactionState nor the delivered events of another,
\* and a Dropped event reports a broadcast only if the subscription's own
\* stream had a Broadcast with peers.
C14_StateIsPerSubscription ==
    [][\A s \in Subs :
          /\ (state[s] = None /\ state'[s] # None) =>
                (state'[s] = Some([broadcasted |-> FALSE]) /\ IsStream(s)')
          /\ Handles(s) =>
                \A t \in Subs \ {s} :
                    state'[t] = state[t] /\ delivered'[t] = delivered[t]
          /\ ReportsBroadcast(s) =>
                \E j \in 1..consumed[s] : HasPeers(backend[s][j])]_vars

C14_Witness ==
    \E s, t \in Subs :
        /\ s # t
        /\ IsStream(s) /\ IsStream(t)
        /\ backend[s] = <<[kind |-> "Broadcast", peers |-> <<"p1", "p2">>]>>
        /\ delivered[s] = <<Broadcasted(2)>>
        /\ backend[t] = <<[kind |-> "FinalityTimeout", hash |-> "h1"]>>
        /\ Len(delivered[t]) = 1
        /\ delivered[t][1].kind = "Dropped"
        /\ ~delivered[t][1].broadcasted

\* C15: the event for a status other than FinalityTimeout does not depend on
\* the broadcasted flag of the state that handles it (it is the event a state
\* with the flag false and a state with the flag true both give), and an
\* Invalid event has no field that reports a broadcast.
C15_OnlyFinalityTimeoutReadsFlag ==
    \A i \in 1..Len(input) :
        /\ i <= Len(output)
        /\ input[i].kind # "FinalityTimeout" =>
              /\ Some(output[i]) = handle_event([broadcasted |-> FALSE], input[i]).ret
              /\ Some(output[i]) = handle_event([broadcasted |-> TRUE], input[i]).ret
        /\ input[i].kind \in {"Usurped", "Dropped", "Invalid"} =>
              (output[i].kind = "Invalid" /\ DOMAIN output[i] = {"kind", "error"})
        /\ (i = 3 /\ input[1].kind = "Future"
                  /\ input[2] = [kind |-> "Broadcast", peers |-> <<>>]
                  /\ input[3].kind = "Dropped") =>
              /\ output[1] = Validated
              /\ output[2] = Broadcasted(0)
              /\ output[3].kind = "Invalid"

C15_Witness ==
    /\ Len(input) = 3
    /\ HasPeers(input[1])
    /\ input[2].kind = "Dropped"
    /\ input[3].kind = "Usurped"
    /\ self.broadcasted
    /\ output[2].kind = "Invalid"
    /\ output[3].kind = "Invalid"

\* The reason text an event carries.
ReasonIs(event, kind, text) == event.kind = kind /\ event.error = text

\* C16 as stated: the reason texts are those of the specification's table.
C16_ReasonsAreTheTableTexts ==
    \A i \in 1..Len(input) :
        /\ i <= Len(output)
        /\ input[i].kind = "FinalityTimeout" =>
              ReasonIs(output[i], "Dropped", "finality watcher limit reached")
        /\ input[i].kind = "Usurped" =>
              ReasonIs(output[i], "Invalid", "superseded by another transaction")
        /\ input[i].kind = "Dropped" =>
              ReasonIs(output[i], "Invalid", "dropped: exceeded pool limits")
        /\ input[i].kind = "Invalid" =>
              ReasonIs(output[i], "Invalid", "marked invalid")

\* C16 as amended: each reason-bearing event carries a fixed text, one per
\* status kind, which is the text written in handle_event.
C16_ReasonsAreFixedTexts ==
    \A i \in 1..Len(input) :
        /\ i <= Len(output)
        /\ input[i].kind = "FinalityTimeout" =>
              ReasonIs(output[i], "Dropped",
                       "Maximum number of finality watchers has been reached")
        /\ input[i].kind = "Usurped" =>
              ReasonIs(output[i], "Invalid",
                       "Extrinsic was rendered invalid by another extrinsic")
        /\ input[i].kind = "Dropped" =>
              ReasonIs(output[i], "Invalid",
                       "Extrinsic dropped from the pool due to exceeding limits")
        /\ input[i].kind = "Invalid" =>
              ReasonIs(output[i], "Invalid", "Extrinsic marked as invalid")

C16_Witness ==
    /\ Len(input) = 3
    /\ input[1].kind = "Usurped"
    /\ input[2].kind = "Dropped"
    /\ input[3].kind = "FinalityTimeout"
    /\ output[1].error = "Extrinsic was rendered invalid by another extrinsic"
    /\ output[2].error = "Extrinsic dropped from the pool due to exceeding limits"
    /\ output[3].error = "Maximum number of finality watchers has been reached"

\* The step is the call of submit_and_watch for s.
IsCall(s) == arg[s] = None /\ arg'[s] # None

\* C17: a call of submit_and_watch invokes the pool's submit_and_watch once,
\* with the best hash of that moment, the source External and the decoded
\* transaction, when the payload decodes, and never otherwise; nothing invokes
\* the pool for that subscription before or after the call.
C17_OnePoolCallPerDecodedPayload ==
    [][\A s \in Subs :
          /\ IsCall(s) =>
                /\ poolCalls[s] = <<>>
                /\ poolCalls'[s] =
                      IF decode(arg'[s][1]).ok
                      THEN <<[at |-> best, source |-> "External",
                              xt |-> decode(arg'[s][1]).tx]>>
                      ELSE <<>>
          /\ ~IsCall(s) => poolCalls'[s] = poolCalls[s]]_vars

C17_Witness ==
    \E s, t \in Subs :
        /\ Len(poolCalls[s]) = 1
        /\ poolCalls[s][1] = [at |-> "h1", source |-> "External", xt |-> "tx"]
        /\ Len(poolCalls[t]) = 1
        /\ poolCalls[t][1] = [at |-> "h2", source |-> "External", xt |-> "tx"]
        /\ pc[s] = "done"
        /\ pc[t] = "done"

\* The sink of s was rejected once and nothing else was done with it.
OnlyRejected(s) ==
    /\ rejects[s] = <<BAD_FORMAT>>
    /\ spawned[s] = 0
    /\ submit[s] = None
    /\ pipeRes[s] = None
    /\ delivered[s] = <<>>
    /\ consumed[s] = 0

\* One task was spawned with the sink of s, and it pipes at most one stream:
\* the translated stream of the pool or the one event of the pool's error.
OnlyPiped(s) ==
    /\ rejects[s] = <<>>
    /\ spawned[s] = 1
    /\ pc[s] \in {"awaiting", "piping", "errpipe", "done"}
    /\ pc[s] = "awaiting" <=> submit[s] = None
    /\ pc[s] = "piping" => IsStream(s)
    /\ pc[s] = "errpipe" => IsRefused(s)
    /\ pc[s] = "done" <=> pipeRes[s] # None
    /\ IsStream(s) =>
          /\ state[s] # None
          /\ Len(delivered[s]) <= consumed[s]
          /\ \A i \in 1..Len(delivered[s]) : TableRow(backend[s][i], delivered[s][i])
    /\ IsRefused(s) =>
          /\ state[s] = None
          /\ consumed[s] = 0
          /\ IsPrefix(delivered[s], <<ErrorToEvent(submit[s][1])>>)

\* C18: after a call of submit_and_watch its sink is either rejected once with
\* no task, or handed to exactly one task that pipes one stream into it; never
\* both and never neither.
C18_RejectedOrPipedNeverBoth ==
    \A s \in Subs :
        /\ WasCalled(s) => (ret[s] = Some("Ok") /\ (OnlyRejected(s) \/ OnlyPiped(s)))
        /\ ~(OnlyRejected(s) /\ OnlyPiped(s))
        /\ ~WasCalled(s) => (rejects[s] = <<>> /\ spawned[s] = 0)

C18_Witness ==
    \E s, t \in Subs :
        /\ WasCalled(s)
        /\ OnlyRejected(s)
        /\ OnlyPiped(t)
        /\ IsStream(t)
        /\ pc[t] = "done"
        /\ Len(delivered[t]) = 2

====
